---- MODULE Spec2Model ----
(***************************************************************************)
(* A model of areq.py, the asynchronous link crawler, and of rand.py, the    *)
(* three make_random coroutines (last part of the model).                  *)
(*                                                                         *)
(* One run of the script is modelled: __main__ writes the header line,     *)
(* asyncio.run starts bulk_crawl_and_write, which appends one write_one    *)
(* coroutine per seed URL to `tasks` and awaits asyncio.gather on the list *)
(* INSIDE the loop (line 116); every write_one runs parse -> fetch_html    *)
(* and then appends its lines to the output file.                          *)
(*                                                                         *)
(* The event loop is the FIFO queue `ready` of callbacks (call_soon        *)
(* order); `running` is the coroutine that currently holds the single      *)
(* thread.  A coroutine keeps the thread until it awaits something that    *)
(* is not finished: the HTTP request, the read of the body, and the        *)
(* aiofiles open / write / close.  The completion of such an operation is  *)
(* a step of the environment that queues the wake-up of the coroutine.     *)
(* When the coroutine given to asyncio.run has finished, asyncio.run       *)
(* cancels the tasks that are still alive; how long they keep running      *)
(* before that is not fixed by the program and is left open.               *)
(***************************************************************************)
EXTENDS Integers, Sequences, FiniteSets, TLC

\* ---------------------------------------------------------------- bounds
MaxSeeds == 2      \* at most this many seed URLs in urls.txt
MaxTokens == 2     \* at most this many tokens (text or href) in a page
MaxPath == 1       \* paths that a reference can name
MaxDraws == 2      \* at most this many draws of one make_random

VARIABLES
    urls,         \* the set of seed URLs read from urls.txt (line 127)
    tasks,        \* the urls whose write_one coroutine is in `tasks`
    sink,         \* the lines of found_urls.txt
    opc,          \* position of __main__ / bulk_crawl_and_write
    oerr,         \* the exception that left bulk_crawl_and_write
    session,      \* the ClientSession: "none", "open", "closed"
    gout,         \* outer future of the current gather
    gN,           \* nfinished of the current gather
    st,           \* state of the pipeline (write_one coroutine) of a seed
    io,           \* outcome of the operation a pipeline awaits
    html,         \* the body fetch_html returned, while parse runs
    refs,         \* history: the references present in the fetched body
    fres,         \* history: how the fetch of the seed ended
    found,        \* the set parse returned
    todo,         \* targets the write loop has not written yet
    wr,           \* the target of the f.write in flight
    fopen,        \* the pipeline holds an open file handle
    perr,         \* an exception is propagating through the async with
    nreq,         \* number of requests issued for the seed
    nopen,        \* number of aiofiles.open calls of the pipeline
    sinkFail,     \* a sink operation of the pipeline failed
    ready,        \* the event loop's queue of callbacks
    running,      \* {} (loop idle), {0} (orchestrator) or {j}
    \* ---- rand.py
    rmain,        \* position of main: "start", "await", "returned"
    rst,          \* state of make_random(idx)
    ri,           \* the local i of make_random(idx)
    left,         \* seconds until the asyncio.sleep of make_random(idx) ends
    rready,       \* the event loop's queue of the make_random tasks
    mainRes,      \* res of main: what the gather returned
    ndraws,       \* history: number of randint calls of make_random(idx)
    nsleeps,      \* history: number of sleeps of make_random(idx)
    early,        \* history: every earlier draw was below the threshold
    rorder        \* history: the order the tasks finished in

areqVars == <<urls, tasks, sink, opc, oerr, session, gout, gN,
              st, io, html, refs, fres, found, todo, wr, fopen, perr, nreq,
              nopen, sinkFail, ready, running>>

randVars == <<rmain, rst, ri, left, rready, mainRes, ndraws, nsleeps,
              early, rorder>>

vars == <<areqVars, randVars>>


\* ------------------------------------------------------------ data model
Seeds == 1 .. MaxSeeds

\* a seed URL j is http://host-j/ ; a target is <<host, path>>
Paths == 1 .. MaxPath

\* the tokens of a page: plain text, or an href="..." with a relative
\* reference, an absolute reference, or a malformed one
Tokens ==
    {[kind |-> "text", host |-> 0, path |-> 0],
     [kind |-> "bad", host |-> 0, path |-> 0]}
    \cup {[kind |-> "rel", host |-> 0, path |-> p] : p \in Paths}
    \cup {[kind |-> "abs", host |-> 1, path |-> p] : p \in Paths}

SeqsUpTo(S, k) == UNION {[1 .. m -> S] : m \in 0 .. k}

Bodies == SeqsUpTo(Tokens, MaxTokens)

\* the header line `source_url\tparsed_url\n` (line 131)
Header == [kind |-> "header", src |-> 0, tgt |-> <<0, 0>>]

\* the line f'{url}\t{p}\n' (line 98)
Line(url, p) == [kind |-> "data", src |-> url, tgt |-> p]

\* a stale line of an earlier run
Stale == [kind |-> "data", src |-> 0, tgt |-> <<0, 0>>]

\* HREF_RE.findall(html): the captured references, in order
RECURSIVE findall(_)
findall(body) ==
    IF body = <<>> THEN <<>>
    ELSE IF Head(body).kind = "text" THEN findall(Tail(body))
         ELSE <<Head(body)>> \o findall(Tail(body))

\* a resolution that ignores the host of an absolute reference
urljoinBaseOnly(url, link) == <<url, link.path>>

\* urllib.parse.urljoin(url, link) for a link that parses
urljoin(url, link) ==
    IF link.kind = "abs" THEN <<link.host, link.path>>
    ELSE <<url, link.path>>

\* a loop that a link which raises ends, with nothing found
RECURSIVE linksAbort(_, _)
linksAbort(url, hrefs) ==
    IF hrefs = <<>> THEN {}
    ELSE IF \E k \in 1 .. Len(hrefs) : hrefs[k].kind = "bad" THEN {}
         ELSE {urljoin(url, Head(hrefs))} \cup linksAbort(url, Tail(hrefs))

\* the for loop of parse (lines 73-80): a link that raises is skipped
RECURSIVE links(_, _)
links(url, hrefs) ==
    IF hrefs = <<>> THEN {}
    ELSE IF Head(hrefs).kind = "bad" THEN links(url, Tail(hrefs))
         ELSE {urljoin(url, Head(hrefs))} \cup links(url, Tail(hrefs))

\* ----------------------------------------------------------- event loop
Cb(k, j, g, e) == [kind |-> k, j |-> j, g |-> g, exc |-> e]

Idle == running = {}

Live(j) == st[j] \in {"Pending", "Fetching", "Reading", "Fetched", "FetchFailed",
                      "Extracting", "Extracted", "Opening", "Writing", "Closing"}

\* position of the coroutine of seed j in `tasks`
Pos(j) == CHOOSE k \in 1 .. Len(tasks) : tasks[k] = j

\* the urls the for loop has taken
Taken == {tasks[k] : k \in 1 .. Len(tasks)}

LoopAlive == opc \in {"o_start", "o_loop", "o_await", "returned", "raised"}

Dispatch(k, j) ==
    /\ Idle
    /\ LoopAlive
    /\ ready # <<>>
    /\ Head(ready).kind = k
    /\ Head(ready).j = j

\* -------------------------------------------------------------- rand.py
\* lines 22, 26: randint(0, 10)
Lo == 0
Hi == 10

\* line 32: range(3)
NTasks == 3

Idx == 0 .. NTasks - 1

\* line 32: make_random(i, 10 - i - 1)
Threshold(idx) == 10 - idx - 1

\* line 25: asyncio.sleep(idx + 1)
Delay(idx) == idx + 1

\* rand.py before asyncio.run(main()), line 38; i is unbound until the
\* first draw (ndraws = 0)
RandStart ==
    /\ rmain = "start"
    /\ rst = [k \in Idx |-> "new"]
    /\ ri = [k \in Idx |-> Lo]
    /\ left = [k \in Idx |-> 0]
    /\ rready = <<>>
    /\ mainRes = <<>>
    /\ ndraws = [k \in Idx |-> 0]
    /\ nsleeps = [k \in Idx |-> 0]
    /\ early = [k \in Idx |-> TRUE]
    /\ rorder = <<>>

TypeOK ==
    /\ urls \subseteq Seeds
    /\ Taken \subseteq urls
    /\ Len(tasks) = Cardinality(Taken)
    /\ opc \in {"m_header", "m_run", "o_start", "o_loop", "o_await",
                "returned", "raised", "exited"}
    /\ oerr \in {"none", "RuntimeError", "SinkError"}
    /\ session \in {"none", "open", "closed"}
    /\ gout \in {"none", "pending", "result", "RuntimeError", "SinkError"}
    /\ gN \in 0 .. MaxSeeds
    /\ st \in [Seeds -> {"NotCreated", "Pending", "Fetching", "Reading",
                         "Fetched", "FetchFailed", "Extracting", "Extracted",
                         "Opening", "Writing", "Closing", "Done",
                         "SinkFailed", "Cancelled"}]
    /\ fres \in [Seeds -> {"none", "ok", "failed"}]
    /\ html \in [Seeds -> Bodies]
    /\ \A j \in Seeds : refs[j] \subseteq Tokens /\ todo[j] \subseteq found[j]
    /\ \A j \in Seeds : st[j] = "NotCreated" <=> j \notin Taken
    /\ running \subseteq 0 .. MaxSeeds
    /\ Cardinality(running) <= 1
    /\ rmain \in {"start", "await", "returned"}
    /\ rst \in [Idx -> {"new", "queued", "sleeping", "done"}]
    /\ ri \in [Idx -> Lo .. Hi]
    /\ left \in [Idx -> 0 .. NTasks]
    /\ ndraws \in [Idx -> 0 .. MaxDraws]
    /\ nsleeps \in [Idx -> 0 .. MaxDraws]
    /\ early \in [Idx -> BOOLEAN]

Init ==
    /\ \E n \in 1 .. MaxSeeds : urls = 1 .. n
    /\ tasks = <<>>
    /\ sink \in {<<>>, <<Stale>>}
    /\ opc = "m_header"
    /\ oerr = "none"
    /\ session = "none"
    /\ gout = "none"
    /\ gN = 0
    /\ st = [j \in Seeds |-> "NotCreated"]
    /\ io = [j \in Seeds |-> "none"]
    /\ html = [j \in Seeds |-> <<>>]
    /\ refs = [j \in Seeds |-> {}]
    /\ fres = [j \in Seeds |-> "none"]
    /\ found = [j \in Seeds |-> {}]
    /\ todo = [j \in Seeds |-> {}]
    /\ wr = [j \in Seeds |-> <<0, 0>>]
    /\ fopen = [j \in Seeds |-> FALSE]
    /\ perr = [j \in Seeds |-> FALSE]
    /\ nreq = [j \in Seeds |-> 0]
    /\ nopen = [j \in Seeds |-> 0]
    /\ sinkFail = [j \in Seeds |-> FALSE]
    /\ ready = <<>>
    /\ running = {}
    /\ RandStart

\* ------------------------------------------------------------- __main__
\* the header appended to what the file held (mode 'a' instead of 'w')
MainHeaderAppend ==
    /\ opc = "m_header"
    /\ sink' = Append(sink, Header)
    /\ opc' = "m_run"
    /\ UNCHANGED <<urls, tasks, oerr, session, gout, gN, st, io, html, refs,
                  fres, found, todo, wr, fopen, perr, nreq, nopen, sinkFail,
                  ready, running, randVars>>

\* lines 129-131: open(out_path, 'w') truncates and writes the header
MainHeader ==
    /\ opc = "m_header"
    /\ sink' = <<Header>>
    /\ opc' = "m_run"
    /\ UNCHANGED <<urls, tasks, oerr, session, gout, gN, st, io, html, refs,
                  fres, found, todo, wr, fopen, perr, nreq, nopen, sinkFail,
                  ready, running, randVars>>

\* line 133: asyncio.run schedules the task of bulk_crawl_and_write
MainRun ==
    /\ opc = "m_run"
    /\ opc' = "o_start"
    /\ ready' = <<Cb("main", 0, 0, "none")>>
    /\ UNCHANGED <<urls, tasks, sink, oerr, session, gout, gN, st, io, html,
                  refs, fres, found, todo, wr, fopen, perr, nreq, nopen,
                  sinkFail, running, randVars>>

\* --------------------------------------------------- bulk_crawl_and_write
\* line 110: the task of bulk_crawl_and_write starts; async with ClientSession()
OrchEnter ==
    /\ Dispatch("main", 0)
    /\ opc = "o_start"
    /\ ready' = Tail(ready)
    /\ session' = "open"
    /\ opc' = "o_loop"
    /\ running' = {0}
    /\ UNCHANGED <<urls, tasks, sink, oerr, gout, gN, st, io, html, refs,
                  fres, found, todo, wr, fopen, perr, nreq, nopen, sinkFail,
                  randVars>>

\* a coroutine object that no task has started yet
Fresh(j) == st[j] \in {"NotCreated", "Pending"}

\* asyncio.gather over the k coroutines of the list: ensure_future wraps every
\* coroutine of the list in a new task and schedules its first step, in list
\* order.  A coroutine that an earlier gather already ran is wrapped again.
GatherChildren(list) ==
    [p \in 1 .. Len(list) |->
        Cb(IF Fresh(list[p]) THEN "pipe" ELSE "reuse", list[p], Len(list), "none")]

\* a loop whose gather is outside the loop body: the coroutines are only
\* collected, and the list is gathered and awaited after the last one
OrchLoopIterGatherLast ==
    /\ running = {0}
    /\ opc = "o_loop"
    /\ \E url \in urls \ Taken :
          /\ tasks' = Append(tasks, url)
          /\ st' = [st EXCEPT ![url] = "Pending"]
          /\ IF urls \ Taken = {url}
             THEN /\ ready' = ready \o GatherChildren(Append(tasks, url))
                  /\ opc' = "o_await"
                  /\ running' = {}
             ELSE /\ ready' = ready
                  /\ opc' = "o_loop"
                  /\ running' = {0}
    /\ gout' = "pending"
    /\ gN' = 0
    /\ UNCHANGED <<urls, sink, oerr, session, io, html, refs, fres, found,
                  todo, wr, fopen, perr, nreq, nopen, sinkFail, randVars>>

\* lines 112-116: one iteration of the for loop (a set is iterated in an
\* arbitrary order): the write_one coroutine of the next url is created and
\* appended, then the whole list is gathered and awaited
OrchLoopIter ==
    /\ running = {0}
    /\ opc = "o_loop"
    /\ \E url \in urls \ Taken :
          /\ tasks' = Append(tasks, url)
          /\ st' = [st EXCEPT ![url] = "Pending"]
          /\ ready' = ready \o GatherChildren(Append(tasks, url))
    /\ gout' = "pending"
    /\ gN' = 0
    /\ opc' = "o_await"
    /\ running' = {}
    /\ UNCHANGED <<urls, sink, oerr, session, io, html, refs, fres, found,
                  todo, wr, fopen, perr, nreq, nopen, sinkFail, randVars>>

\* lines 112, 110: the loop is exhausted: the session is closed and
\* bulk_crawl_and_write returns None
OrchLoopEnd ==
    /\ running = {0}
    /\ opc = "o_loop"
    /\ urls \ Taken = {}
    /\ session' = "closed"
    /\ opc' = "returned"
    /\ running' = {}
    /\ UNCHANGED <<urls, tasks, sink, oerr, gout, gN, st, io, html, refs,
                  fres, found, todo, wr, fopen, perr, nreq, nopen, sinkFail,
                  ready, randVars>>

\* line 116: the gather has a result: the loop goes on
OrchResume ==
    /\ Dispatch("main", 0)
    /\ opc = "o_await"
    /\ gout = "result"
    /\ ready' = Tail(ready)
    /\ opc' = "o_loop"
    /\ running' = {0}
    /\ UNCHANGED <<urls, tasks, sink, oerr, session, gout, gN, st, io, html,
                  refs, fres, found, todo, wr, fopen, perr, nreq, nopen,
                  sinkFail, randVars>>

\* line 116: the gather raises: the exception leaves the for loop and the
\* async with (which closes the session) and then bulk_crawl_and_write
OrchRaise ==
    /\ Dispatch("main", 0)
    /\ opc = "o_await"
    /\ gout \notin {"pending", "result"}
    /\ ready' = Tail(ready)
    /\ oerr' = gout
    /\ session' = "closed"
    /\ opc' = "raised"
    /\ running' = {}
    /\ UNCHANGED <<urls, tasks, sink, gout, gN, st, io, html, refs, fres,
                  found, todo, wr, fopen, perr, nreq, nopen, sinkFail,
                  randVars>>

\* a task that runs the body of an already awaited coroutine once more
ReuseStepRerun(j) ==
    /\ Dispatch("reuse", j)
    /\ st' = [st EXCEPT ![j] = "Pending"]
    /\ ready' = Tail(ready) \o <<Cb("pipe", j, Head(ready).g, "none")>>
    /\ UNCHANGED <<urls, tasks, sink, opc, oerr, session, gout, gN, io, html,
                  refs, fres, found, todo, wr, fopen, perr, nreq, nopen,
                  sinkFail, running, randVars>>

\* the first step of a task that wraps a coroutine which already ran:
\* RuntimeError('cannot reuse already awaited coroutine'); the task is done
\* and its done-callback (of the gather) is scheduled
ReuseStep(j) ==
    /\ Dispatch("reuse", j)
    /\ ready' = Tail(ready) \o <<Cb("gcb", j, Head(ready).g, "RuntimeError")>>
    /\ UNCHANGED <<urls, tasks, sink, opc, oerr, session, gout, gN, st, io,
                  html, refs, fres, found, todo, wr, fopen, perr, nreq, nopen,
                  sinkFail, running, randVars>>

\* the callbacks a finished child of gather g leaves in the loop's queue
WakeMain == IF opc = "o_await" THEN <<Cb("main", 0, 0, "none")>> ELSE <<>>

\* gather's _done_callback, return_exceptions=False: the first child that
\* finished with an exception sets it on the outer future
GatherChildFailed(j) ==
    /\ Dispatch("gcb", j)
    /\ Head(ready).g = Len(tasks)
    /\ gout = "pending"
    /\ Head(ready).exc # "none"
    /\ gout' = Head(ready).exc
    /\ ready' = Tail(ready) \o WakeMain
    /\ UNCHANGED <<urls, tasks, sink, opc, oerr, session, gN, st, io, html,
                  refs, fres, found, todo, wr, fopen, perr, nreq, nopen,
                  sinkFail, running, randVars>>

\* gather's _done_callback: a child finished with a result; when it is the
\* last one the outer future gets the list of results
GatherChildDone(j) ==
    /\ Dispatch("gcb", j)
    /\ Head(ready).g = Len(tasks)
    /\ gout = "pending"
    /\ Head(ready).exc = "none"
    /\ gN' = gN + 1
    /\ gout' = IF gN + 1 = Len(tasks) THEN "result" ELSE gout
    /\ ready' = Tail(ready) \o (IF gN + 1 = Len(tasks) THEN WakeMain ELSE <<>>)
    /\ UNCHANGED <<urls, tasks, sink, opc, oerr, session, st, io, html, refs,
                  fres, found, todo, wr, fopen, perr, nreq, nopen, sinkFail,
                  running, randVars>>

\* gather's _done_callback when the outer future is already done
GatherIgnored(j) ==
    /\ Dispatch("gcb", j)
    /\ \/ Head(ready).g # Len(tasks)
       \/ gout # "pending"
    /\ ready' = Tail(ready)
    /\ UNCHANGED <<urls, tasks, sink, opc, oerr, session, gout, gN, st, io,
                  html, refs, fres, found, todo, wr, fopen, perr, nreq, nopen,
                  sinkFail, running, randVars>>

\* ------------------------------------------------- write_one, parse, fetch
\* the done-callback a finished pipeline task leaves for its gather
TaskDone(j, exc) == <<Cb("gcb", j, Pos(j), exc)>>

\* lines 93, 55, 38: first step of write_one: parse, fetch_html,
\* session.request is issued and awaited
StartFetch(j) ==
    /\ Dispatch("pipe", j)
    /\ st[j] = "Pending"
    /\ ready' = Tail(ready)
    /\ st' = [st EXCEPT ![j] = "Fetching"]
    /\ io' = [io EXCEPT ![j] = IF session = "open" THEN "pending" ELSE "other"]
    /\ nreq' = [nreq EXCEPT ![j] = IF session = "open" THEN @ + 1 ELSE @]
    /\ running' = IF session = "open" THEN {} ELSE {j}
    /\ UNCHANGED <<urls, tasks, sink, opc, oerr, session, gout, gN, html,
                  refs, fres, found, todo, wr, fopen, perr, nopen, sinkFail,
                  randVars>>

\* the network: the request ends with a response whose status is a success
\* ("ok") or not ("status"), with a transport error ("transport", an
\* aiohttp.ClientError) or with another exception ("other")
FetchResponds(j) ==
    /\ LoopAlive
    /\ st[j] = "Fetching"
    /\ io[j] = "pending"
    /\ \E r \in {"ok", "status", "transport", "other"} :
          io' = [io EXCEPT ![j] = r]
    /\ ready' = ready \o <<Cb("pipe", j, 0, "none")>>
    /\ UNCHANGED <<urls, tasks, sink, opc, oerr, session, gout, gN, st, html,
                  refs, fres, found, todo, wr, fopen, perr, nreq, nopen,
                  sinkFail, running, randVars>>

\* lines 38-41: the response is there, raise_for_status passes, the body is
\* awaited
GotResponse(j) ==
    /\ Dispatch("pipe", j)
    /\ st[j] = "Fetching"
    /\ io[j] = "ok"
    /\ ready' = Tail(ready)
    /\ st' = [st EXCEPT ![j] = "Reading"]
    /\ io' = [io EXCEPT ![j] = "pending"]
    /\ UNCHANGED <<urls, tasks, sink, opc, oerr, session, gout, gN, html,
                  refs, fres, found, todo, wr, fopen, perr, nreq, nopen,
                  sinkFail, running, randVars>>

\* lines 38-39, 56-71: the request or raise_for_status raises; parse catches
\* the exception and logs it
FetchRaises(j) ==
    /\ \/ Dispatch("pipe", j) /\ ready' = Tail(ready)
       \/ running = {j} /\ ready' = ready
    /\ st[j] \in {"Fetching", "Reading"}
    /\ io[j] \in {"status", "transport", "other"}
    /\ st' = [st EXCEPT ![j] = "FetchFailed"]
    /\ fres' = [fres EXCEPT ![j] = "failed"]
    /\ running' = {j}
    /\ UNCHANGED <<urls, tasks, sink, opc, oerr, session, gout, gN, io, html,
                  refs, found, todo, wr, fopen, perr, nreq, nopen, sinkFail,
                  randVars>>

\* the network: the body arrives, or reading it fails
BodyArrives(j) ==
    /\ LoopAlive
    /\ st[j] = "Reading"
    /\ io[j] = "pending"
    /\ \/ \E b \in Bodies :
             /\ html' = [html EXCEPT ![j] = b]
             /\ io' = [io EXCEPT ![j] = "ok"]
       \/ /\ io' = [io EXCEPT ![j] = "transport"]
          /\ html' = html
    /\ ready' = ready \o <<Cb("pipe", j, 0, "none")>>
    /\ UNCHANGED <<urls, tasks, sink, opc, oerr, session, gout, gN, st, refs,
                  fres, found, todo, wr, fopen, perr, nreq, nopen, sinkFail,
                  running, randVars>>

\* lines 41-42, 55: resp.text() returns; fetch_html returns the body
GotBody(j) ==
    /\ Dispatch("pipe", j)
    /\ st[j] = "Reading"
    /\ io[j] = "ok"
    /\ ready' = Tail(ready)
    /\ st' = [st EXCEPT ![j] = "Fetched"]
    /\ io' = [io EXCEPT ![j] = "none"]
    /\ fres' = [fres EXCEPT ![j] = "ok"]
    /\ refs' = [refs EXCEPT ![j] = {html[j][k] : k \in 1 .. Len(html[j])}
                                   \ {t \in Tokens : t.kind = "text"}]
    /\ running' = {j}
    /\ UNCHANGED <<urls, tasks, sink, opc, oerr, session, gout, gN, html,
                  found, todo, wr, fopen, perr, nreq, nopen, sinkFail,
                  randVars>>

\* lines 66 / 71, 94-95: parse returns the empty set, write_one returns None
FetchFailedReturn(j) ==
    /\ running = {j}
    /\ st[j] = "FetchFailed"
    /\ st' = [st EXCEPT ![j] = "Done"]
    /\ io' = [io EXCEPT ![j] = "none"]
    /\ ready' = ready \o TaskDone(j, "none")
    /\ running' = {}
    /\ UNCHANGED <<urls, tasks, sink, opc, oerr, session, gout, gN, html,
                  refs, fres, found, todo, wr, fopen, perr, nreq, nopen,
                  sinkFail, randVars>>

\* a parse that awaits before it scans the body: the loop is released and
\* the pipeline waits in the queue
BeginExtractYield(j) ==
    /\ running = {j}
    /\ st[j] = "Fetched"
    /\ st' = [st EXCEPT ![j] = "Extracting"]
    /\ ready' = ready \o <<Cb("pipe", j, 0, "none")>>
    /\ running' = {}
    /\ UNCHANGED <<urls, tasks, sink, opc, oerr, session, gout, gN, io, html,
                  refs, fres, found, todo, wr, fopen, perr, nreq, nopen,
                  sinkFail, randVars>>

\* lines 72-73: the else branch of parse starts scanning the body
BeginExtract(j) ==
    /\ running = {j}
    /\ st[j] = "Fetched"
    /\ st' = [st EXCEPT ![j] = "Extracting"]
    /\ UNCHANGED <<urls, tasks, sink, opc, oerr, session, gout, gN, io, html,
                  refs, fres, found, todo, wr, fopen, perr, nreq, nopen,
                  sinkFail, ready, running, randVars>>

\* lines 73-82: every captured reference is resolved; parse returns found
Extract(j) ==
    /\ running = {j}
    /\ st[j] = "Extracting"
    /\ found' = [found EXCEPT ![j] = links(j, findall(html[j]))]
    /\ html' = [html EXCEPT ![j] = <<>>]
    /\ st' = [st EXCEPT ![j] = "Extracted"]
    /\ UNCHANGED <<urls, tasks, sink, opc, oerr, session, gout, gN, io, refs,
                  fres, todo, wr, fopen, perr, nreq, nopen, sinkFail, ready,
                  running, randVars>>

\* a write_one without the test of line 94
NoResultNever(res) == FALSE

\* line 94: the test `if not res`
NoResult(res) == res = {}

\* lines 94-95: nothing was found: write_one returns None
SkipEmpty(j) ==
    /\ running = {j}
    /\ st[j] = "Extracted"
    /\ NoResult(found[j])
    /\ st' = [st EXCEPT ![j] = "Done"]
    /\ ready' = ready \o TaskDone(j, "none")
    /\ running' = {}
    /\ UNCHANGED <<urls, tasks, sink, opc, oerr, session, gout, gN, io, html,
                  refs, fres, found, todo, wr, fopen, perr, nreq, nopen,
                  sinkFail, randVars>>

\* line 96: aiofiles.open(file, 'a') is awaited
OpenSink(j) ==
    /\ running = {j}
    /\ st[j] = "Extracted"
    /\ ~NoResult(found[j])
    /\ st' = [st EXCEPT ![j] = "Opening"]
    /\ io' = [io EXCEPT ![j] = "pending"]
    /\ nopen' = [nopen EXCEPT ![j] = @ + 1]
    /\ running' = {}
    /\ UNCHANGED <<urls, tasks, sink, opc, oerr, session, gout, gN, html,
                  refs, fres, found, todo, wr, fopen, perr, nreq, sinkFail,
                  ready, randVars>>

\* the file system: the open succeeds or fails.  What aiofiles.open does
\* with `file` is not fixed here: __main__ passes the name it rebound to the
\* closed handle of line 130, for which the built-in open raises TypeError.
OpenCompletes(j) ==
    /\ LoopAlive
    /\ st[j] = "Opening"
    /\ io[j] = "pending"
    /\ \E r \in {"ok", "err"} : io' = [io EXCEPT ![j] = r]
    /\ ready' = ready \o <<Cb("pipe", j, 0, "none")>>
    /\ UNCHANGED <<urls, tasks, sink, opc, oerr, session, gout, gN, st, html,
                  refs, fres, found, todo, wr, fopen, perr, nreq, nopen,
                  sinkFail, running, randVars>>

\* lines 96-98: the handle is open; the loop over res awaits its first
\* f.write (a set is iterated in an arbitrary order)
Opened(j) ==
    /\ Dispatch("pipe", j)
    /\ st[j] = "Opening"
    /\ io[j] = "ok"
    /\ ready' = Tail(ready)
    /\ fopen' = [fopen EXCEPT ![j] = TRUE]
    /\ todo' = [todo EXCEPT ![j] = found[j]]
    /\ \E p \in found[j] : wr' = [wr EXCEPT ![j] = p]
    /\ st' = [st EXCEPT ![j] = "Writing"]
    /\ io' = [io EXCEPT ![j] = "pending"]
    /\ UNCHANGED <<urls, tasks, sink, opc, oerr, session, gout, gN, html,
                  refs, fres, found, perr, nreq, nopen, sinkFail, running,
                  randVars>>

\* line 96: the open raises; nothing in write_one catches it: the task of
\* the pipeline ends with the exception
OpenFails(j) ==
    /\ Dispatch("pipe", j)
    /\ st[j] = "Opening"
    /\ io[j] = "err"
    /\ st' = [st EXCEPT ![j] = "SinkFailed"]
    /\ io' = [io EXCEPT ![j] = "none"]
    /\ sinkFail' = [sinkFail EXCEPT ![j] = TRUE]
    /\ ready' = Tail(ready) \o TaskDone(j, "SinkError")
    /\ UNCHANGED <<urls, tasks, sink, opc, oerr, session, gout, gN, html,
                  refs, fres, found, todo, wr, fopen, perr, nreq, nopen,
                  running, randVars>>

\* the file system: the write in flight appends its line, or fails
WriteCompletes(j) ==
    /\ LoopAlive
    /\ st[j] = "Writing"
    /\ io[j] = "pending"
    /\ \/ /\ sink' = Append(sink, Line(j, wr[j]))
          /\ io' = [io EXCEPT ![j] = "ok"]
       \/ /\ sink' = sink
          /\ io' = [io EXCEPT ![j] = "err"]
    /\ ready' = ready \o <<Cb("pipe", j, 0, "none")>>
    /\ UNCHANGED <<urls, tasks, opc, oerr, session, gout, gN, st, html, refs,
                  fres, found, todo, wr, fopen, perr, nreq, nopen, sinkFail,
                  running, randVars>>

\* a write loop over a collection that still holds what it has written
WriteNextRepeat(j) ==
    /\ Dispatch("pipe", j)
    /\ st[j] = "Writing"
    /\ io[j] = "ok"
    /\ todo[j] \ {wr[j]} # {}
    /\ ready' = Tail(ready)
    /\ \E p \in todo[j] : wr' = [wr EXCEPT ![j] = p]
    /\ io' = [io EXCEPT ![j] = "pending"]
    /\ UNCHANGED <<urls, tasks, sink, opc, oerr, session, gout, gN, st, html,
                  refs, fres, found, todo, fopen, perr, nreq, nopen, sinkFail,
                  running, randVars>>

\* lines 97-98: the next iteration of the write loop
WriteNext(j) ==
    /\ Dispatch("pipe", j)
    /\ st[j] = "Writing"
    /\ io[j] = "ok"
    /\ todo[j] \ {wr[j]} # {}
    /\ ready' = Tail(ready)
    /\ todo' = [todo EXCEPT ![j] = @ \ {wr[j]}]
    /\ \E p \in todo[j] \ {wr[j]} : wr' = [wr EXCEPT ![j] = p]
    /\ io' = [io EXCEPT ![j] = "pending"]
    /\ UNCHANGED <<urls, tasks, sink, opc, oerr, session, gout, gN, st, html,
                  refs, fres, found, fopen, perr, nreq, nopen, sinkFail,
                  running, randVars>>

\* lines 97-99, 96: the loop is exhausted; the async with closes the handle
WriteLast(j) ==
    /\ Dispatch("pipe", j)
    /\ st[j] = "Writing"
    /\ io[j] = "ok"
    /\ todo[j] \ {wr[j]} = {}
    /\ ready' = Tail(ready)
    /\ todo' = [todo EXCEPT ![j] = {}]
    /\ st' = [st EXCEPT ![j] = "Closing"]
    /\ io' = [io EXCEPT ![j] = "pending"]
    /\ UNCHANGED <<urls, tasks, sink, opc, oerr, session, gout, gN, html,
                  refs, fres, found, wr, fopen, perr, nreq, nopen, sinkFail,
                  running, randVars>>

\* line 98, 96: f.write raises; the async with closes the handle and lets
\* the exception through
WriteFails(j) ==
    /\ Dispatch("pipe", j)
    /\ st[j] = "Writing"
    /\ io[j] = "err"
    /\ ready' = Tail(ready)
    /\ perr' = [perr EXCEPT ![j] = TRUE]
    /\ sinkFail' = [sinkFail EXCEPT ![j] = TRUE]
    /\ st' = [st EXCEPT ![j] = "Closing"]
    /\ io' = [io EXCEPT ![j] = "pending"]
    /\ UNCHANGED <<urls, tasks, sink, opc, oerr, session, gout, gN, html,
                  refs, fres, found, todo, wr, fopen, nreq, nopen, running,
                  randVars>>

\* the file system: the close is done
CloseCompletes(j) ==
    /\ LoopAlive
    /\ st[j] = "Closing"
    /\ io[j] = "pending"
    /\ io' = [io EXCEPT ![j] = "ok"]
    /\ ready' = ready \o <<Cb("pipe", j, 0, "none")>>
    /\ UNCHANGED <<urls, tasks, sink, opc, oerr, session, gout, gN, st, html,
                  refs, fres, found, todo, wr, fopen, perr, nreq, nopen,
                  sinkFail, running, randVars>>

\* a write_one that swallows the exception of the write
WriteOneResultSwallow(failed) == "Done"

\* how write_one ends once the handle is closed: with the exception that
\* went through the async with, or with None
WriteOneResult(failed) == IF failed THEN "SinkFailed" ELSE "Done"

\* lines 96-99: the handle is closed: write_one ends
Closed(j) ==
    /\ Dispatch("pipe", j)
    /\ st[j] = "Closing"
    /\ io[j] = "ok"
    /\ fopen' = [fopen EXCEPT ![j] = FALSE]
    /\ st' = [st EXCEPT ![j] = WriteOneResult(perr[j])]
    /\ io' = [io EXCEPT ![j] = "none"]
    /\ ready' = Tail(ready) \o
                TaskDone(j, IF WriteOneResult(perr[j]) = "Done"
                            THEN "none" ELSE "SinkError")
    /\ UNCHANGED <<urls, tasks, sink, opc, oerr, session, gout, gN, html,
                  refs, fres, found, todo, wr, perr, nreq, nopen, sinkFail,
                  running, randVars>>

\* ----------------------------------------------------------- asyncio.run
\* the states a cancelled task can end in.  A CancelledError thrown into
\* the await of fetch_html is caught by `except Exception` of parse where it
\* is an Exception (Python 3.7, line 1), and the pipeline then goes on as
\* for a failed fetch; where it is a BaseException the task ends cancelled.
CancelResults(j) ==
    IF st[j] \in {"Fetching", "Reading"} THEN {"FetchFailed", "Cancelled"}
    ELSE {"Cancelled"}

\* asyncio.run, after its coroutine has finished: a task that is still
\* alive is cancelled.  A write that a worker thread has already taken may
\* still reach the file; the async with closes the handle.
CancelTask(j) ==
    /\ opc \in {"returned", "raised"}
    /\ Idle
    /\ Live(j)
    /\ \E r \in CancelResults(j) :
          /\ st' = [st EXCEPT ![j] = r]
          /\ running' = IF r = "FetchFailed" THEN {j} ELSE {}
    /\ io' = [io EXCEPT ![j] = "none"]
    /\ fopen' = [fopen EXCEPT ![j] = FALSE]
    /\ \/ sink' = sink
       \/ /\ st[j] = "Writing"
          /\ io[j] = "pending"
          /\ sink' = Append(sink, Line(j, wr[j]))
    /\ ready' = SelectSeq(ready, LAMBDA c : ~(c.kind = "pipe" /\ c.j = j))
    /\ UNCHANGED <<urls, tasks, opc, oerr, session, gout, gN, html, refs,
                  fres, found, todo, wr, perr, nreq, nopen, sinkFail,
                  randVars>>

\* asyncio.run returns to __main__ (or raises) and the loop is closed
Exit ==
    /\ opc \in {"returned", "raised"}
    /\ Idle
    /\ \A j \in Seeds : ~Live(j)
    /\ opc' = "exited"
    /\ ready' = <<>>
    /\ UNCHANGED <<urls, tasks, sink, oerr, session, gout, gN, st, io, html,
                  refs, fres, found, todo, wr, fopen, perr, nreq, nopen,
                  sinkFail, running, randVars>>

Next ==
    \/ MainHeader
    \/ MainRun
    \/ OrchEnter
    \/ OrchLoopIter
    \/ OrchLoopEnd
    \/ OrchResume
    \/ OrchRaise
    \/ \E j \in Seeds : ReuseStep(j)
    \/ \E j \in Seeds : GatherChildFailed(j)
    \/ \E j \in Seeds : GatherChildDone(j)
    \/ \E j \in Seeds : GatherIgnored(j)
    \/ \E j \in Seeds : StartFetch(j)
    \/ \E j \in Seeds : FetchResponds(j)
    \/ \E j \in Seeds : GotResponse(j)
    \/ \E j \in Seeds : FetchRaises(j)
    \/ \E j \in Seeds : BodyArrives(j)
    \/ \E j \in Seeds : GotBody(j)
    \/ \E j \in Seeds : FetchFailedReturn(j)
    \/ \E j \in Seeds : BeginExtract(j)
    \/ \E j \in Seeds : Extract(j)
    \/ \E j \in Seeds : SkipEmpty(j)
    \/ \E j \in Seeds : OpenSink(j)
    \/ \E j \in Seeds : OpenCompletes(j)
    \/ \E j \in Seeds : Opened(j)
    \/ \E j \in Seeds : OpenFails(j)
    \/ \E j \in Seeds : WriteCompletes(j)
    \/ \E j \in Seeds : WriteNext(j)
    \/ \E j \in Seeds : WriteLast(j)
    \/ \E j \in Seeds : WriteFails(j)
    \/ \E j \in Seeds : CloseCompletes(j)
    \/ \E j \in Seeds : Closed(j)
    \/ \E j \in Seeds : CancelTask(j)
    \/ Exit

Spec == Init /\ [][Next]_vars

\* the loop keeps running and every awaited operation completes
FairSpec == Spec /\ WF_vars(Next)

\* ================================================================ claims
DataIdx == {i \in 1 .. Len(sink) : sink[i].kind = "data"}

LinesOf(j) == {i \in DataIdx : sink[i].src = j}

\* the lines write_one emits for a seed whose parse returned found[j]
Expected(j) == {Line(j, t) : t \in found[j]}

NoSinkFailure == \A j \in Seeds : ~sinkFail[j]

OrchFinished == opc \in {"returned", "raised", "exited"}

\* C1: the lines of one pipeline form a contiguous block of the sink: no
\* line of another pipeline lies between two lines of the same pipeline
C1_ContiguousBlocks ==
    opc # "m_header" =>
        \A a, b, c \in DataIdx :
            (a < b /\ b < c /\ sink[a].src = sink[c].src)
                => sink[b].src = sink[a].src

\* two pipelines have written, one of them at least two lines
C1_Witness ==
    /\ opc # "m_header"
    /\ \E j, k \in urls :
          /\ j # k
          /\ Cardinality(LinesOf(j)) >= 2
          /\ Cardinality(LinesOf(k)) >= 1

\* C2: when the run has ended and no sink operation failed, the data lines
\* are exactly the lines of the seeds whose fetch succeeded
C2_ExactOutput ==
    (opc = "exited" /\ NoSinkFailure) =>
        {sink[i] : i \in DataIdx}
            = UNION {Expected(j) : j \in {k \in urls : fres[k] = "ok"}}

\* C3: with exactly one failed fetch the run completes without an error, no
\* sibling is cancelled, the failed seed has no line and every seed whose
\* fetch succeeded has all its lines
C3_FailureIsolation ==
    (/\ opc = "exited"
     /\ NoSinkFailure
     /\ Cardinality({j \in urls : fres[j] = "failed"}) = 1) =>
        /\ oerr = "none"
        /\ \A j \in urls :
              /\ st[j] # "Cancelled"
              /\ fres[j] = "failed" => LinesOf(j) = {}
              /\ fres[j] = "ok" => Expected(j) \subseteq {sink[i] : i \in DataIdx}

\* C4: every data line has a source whose fetch has succeeded and a target
\* that is the resolution of a reference present in the fetched body
C4_LinesFromFetchedPages ==
    opc # "m_header" =>
        \A i \in DataIdx :
            /\ sink[i].src \in urls
            /\ fres[sink[i].src] = "ok"
            /\ \E r \in refs[sink[i].src] :
                  \/ r.kind = "abs" /\ sink[i].tgt = <<r.host, r.path>>
                  \/ r.kind = "rel" /\ sink[i].tgt = <<sink[i].src, r.path>>

\* a line whose target came from an absolute reference to another host
C4_Witness ==
    /\ opc # "m_header"
    /\ \E i \in DataIdx : sink[i].tgt[1] # sink[i].src

\* C5: once the orchestrator has finished, the pipeline of every seed URL
\* is Done
C5_AllDoneAtReturn ==
    (OrchFinished /\ NoSinkFailure) => \A j \in urls : st[j] = "Done"

\* C6: the orchestrator ends with an error only if a sink operation failed
C6_OnlySinkErrors ==
    (OrchFinished /\ oerr # "none") => ~NoSinkFailure

\* C7: the run terminates, and unless a sink operation failed the pipeline
\* of every seed URL has reached Done by then
C7_EveryPipelineEnds ==
    <>(opc = "exited" /\ (NoSinkFailure => \A j \in urls : st[j] = "Done"))

C9_HeaderFirstOnce ==
    (\E j \in urls : st[j] \notin {"NotCreated", "Pending"}) =>
        /\ Len(sink) >= 1
        /\ sink[1] = Header
        /\ \A i \in 2 .. Len(sink) : sink[i].kind = "data"

\* a pipeline is in its write loop and a line stands under the header
C9_Witness ==
    /\ Len(sink) >= 2
    /\ sink[1] = Header
    /\ \E j \in urls : st[j] = "Writing"

\* C10: a pipeline whose target set is empty never opens the sink and has
\* no line in it
C10_EmptyNoSinkAccess ==
    \A j \in urls :
        (found[j] = {} /\ opc # "m_header") =>
            /\ nopen[j] = 0
            /\ ~fopen[j]
            /\ LinesOf(j) = {}

\* a pipeline is Done after a successful fetch of a page without a
\* reference that resolves, another after a failed fetch
C10_Witness ==
    \E j, k \in urls :
        /\ st[j] = "Done" /\ fres[j] = "ok" /\ found[j] = {}
        /\ st[k] = "Done" /\ fres[k] = "failed"

\* C11: every pipeline is started before the orchestrator first blocks on
\* the gather: whenever the orchestrator waits, the coroutine of every seed
\* URL has been created and handed to the loop
C11_AllLaunchedBeforeAwait ==
    opc = "o_await" => \A j \in urls : st[j] # "NotCreated"

\* a step of the network: a response or a body arrives
NetworkStep == \E j \in Seeds : FetchResponds(j) \/ BodyArrives(j)

\* the loop keeps running and every file operation completes, but nothing
\* makes a request come back
HungSpec == Spec /\ WF_vars(Next /\ ~NetworkStep)

\* the request for seed h is never answered
FetchHangs(h) ==
    [](/\ st[h] \in {"NotCreated", "Pending", "Fetching", "Cancelled"}
       /\ io[h] \in {"none", "pending"})

\* every request and every read of a body for seed j comes back
FetchCompletes(j) ==
    (st[j] \in {"Fetching", "Reading"} /\ io[j] = "pending")
        ~> ~(st[j] \in {"Fetching", "Reading"} /\ io[j] = "pending")

\* C12: when the fetch of one seed URL hangs and every other fetch comes
\* back, the pipeline of every other seed URL is launched and reaches Done
\* (or fails on the sink)
C12_HungFetchStallsOnlyItself ==
    \A h \in Seeds :
        (FetchHangs(h) /\ \A j \in Seeds \ {h} : FetchCompletes(j))
            => <>(\A j \in urls \ {h} : st[j] = "Done" \/ sinkFail[j])

\* a pipeline is inside the async with of write_one: the open is awaited,
\* the handle is open, or the handle is being closed
InSinkSection(j) == st[j] \in {"Opening", "Writing", "Closing"} \/ fopen[j]

\* C13: at most one pipeline is inside its open / write / close section
C13_SinkMutualExclusion ==
    \A j, k \in urls : (InSinkSection(j) /\ InSinkSection(k)) => j = k

\* a pipeline is in its write loop after another one has been through its
\* own section
C13_Witness ==
    \E j, k \in urls :
        /\ j # k
        /\ st[j] = "Writing" /\ fopen[j]
        /\ nopen[k] = 1 /\ ~InSinkSection(k)

\* the moves of a pipeline along Pending -> Fetching -> {Fetched |
\* FetchFailed} -> Extracting -> Extracted -> Writing -> Done.  Fetching
\* covers the request and the read of the body, Writing the open, the write
\* loop and the close; an empty target set goes from Extracted to Done, and
\* a failed sink operation ends the pipeline with its exception.
PipelineMoves ==
    {<<"NotCreated", "Pending">>, <<"Pending", "Fetching">>,
     <<"Fetching", "Reading">>, <<"Reading", "Fetched">>,
     <<"Fetching", "FetchFailed">>, <<"Reading", "FetchFailed">>,
     <<"FetchFailed", "Done">>, <<"Fetched", "Extracting">>,
     <<"Extracting", "Extracted">>, <<"Extracted", "Done">>,
     <<"Extracted", "Opening">>, <<"Opening", "Writing">>,
     <<"Writing", "Closing">>, <<"Closing", "Done">>,
     <<"Opening", "SinkFailed">>, <<"Closing", "SinkFailed">>}

\* C14: a pipeline only moves along the chain, so that fetch precedes
\* extraction precedes writing and it can only end in Done (or with the
\* exception of a sink operation); a failed fetch leaves no line
C14_PipelineOrder ==
    [][\A j \in Seeds :
          /\ st'[j] # st[j] => <<st[j], st'[j]>> \in PipelineMoves
          /\ fres'[j] = "failed" =>
                \A i \in 1 .. Len(sink') : sink'[i].src # j]_vars

\* C15: at most one request is issued for a seed URL, and a pipeline that
\* has ended is never run again, although every gather lists it again
C15_NoRetry ==
    \A j \in Seeds :
        /\ nreq[j] <= 1
        /\ (nreq[j] = 1 /\ fres[j] # "none")
               => st[j] \notin {"Pending", "Fetching", "Reading"}

\* the second gather has listed the finished pipeline again and its task
\* has failed
C15_Witness ==
    /\ gout = "RuntimeError"
    /\ \E j \in urls : nreq[j] = 1 /\ st[j] = "Done" /\ Len(tasks) = 2 /\ tasks[1] = j

\* the references of the body of seed j that parse
WellFormed(j) == {r \in refs[j] : r.kind \in {"rel", "abs"}}

\* parse has returned for seed j after a successful fetch
Parsed(j) ==
    /\ fres[j] = "ok"
    /\ st[j] \notin {"Fetched", "Extracting"}

\* C16: the extracted set is exactly the set of resolutions of the
\* well-formed references of the body; a malformed reference neither
\* empties it nor keeps the pipeline from its write step
C16_MalformedSkipped ==
    \A j \in urls :
        Parsed(j) =>
            /\ \A r \in WellFormed(j) :
                  (IF r.kind = "abs" THEN <<r.host, r.path>>
                   ELSE <<j, r.path>>) \in found[j]
            /\ \A t \in found[j] :
                  \E r \in WellFormed(j) :
                      t = IF r.kind = "abs" THEN <<r.host, r.path>>
                          ELSE <<j, r.path>>
            /\ (WellFormed(j) # {} /\ st[j] = "Done" /\ ~sinkFail[j])
                   => LinesOf(j) # {}

\* a pipeline writes the target of the well-formed reference of a body that
\* also holds a malformed one
C16_Witness ==
    \E j \in urls :
        /\ st[j] = "Writing"
        /\ \E r \in refs[j] : r.kind = "bad"
        /\ WellFormed(j) # {}
        /\ LinesOf(j) # {}

\* C17: the sink holds at most one line for a (source, target) pair
C17_UniqueLines ==
    opc # "m_header" =>
        \A a, b \in DataIdx : sink[a] = sink[b] => a = b

\* the line of a target that two different references of the body resolve
\* to has been written, and the pipeline has ended
C17_Witness ==
    \E j \in urls :
        /\ st[j] = "Done"
        /\ \E r, q \in refs[j] :
              /\ r.kind = "rel" /\ q.kind = "abs"
              /\ <<j, r.path>> = <<q.host, q.path>>
              /\ \E i \in LinesOf(j) : sink[i].tgt = <<j, r.path>>

\* C18: while a launched pipeline has not finished its fetch the shared
\* client is not closed
C18_SessionOutlivesPipelines ==
    session = "closed" =>
        \A j \in urls : st[j] \notin {"Pending", "Fetching", "Reading"}

\* the states in which a pipeline is suspended in an await of fetch_html
\* (lines 38, 41) or of the async with of write_one (lines 96-98)
Suspended == {"Fetching", "Reading", "Opening", "Writing", "Closing"}

\* the states in which the coroutine of a pipeline has finished
Ended == {"Done", "SinkFailed", "Cancelled"}

\* C19: from the return of the body to the complete link set only the
\* extracting pipeline steps: it keeps the loop, and no other pipeline, the
\* orchestrator, the queue or the sink changes; a pipeline gives up the
\* loop only suspended in its fetch or in its sink section, or at its end
C19_ExtractionNeverSuspends ==
    [][\A j \in Seeds :
          /\ st[j] \in {"Fetched", "Extracting"} =>
                /\ running = {j}
                /\ running' = {j}
                /\ st'[j] \in {"Extracting", "Extracted"}
                /\ \A k \in Seeds \ {j} : st'[k] = st[k]
                /\ <<opc, ready, sink, session>>' = <<opc, ready, sink, session>>
          /\ (running = {j} /\ running' # {j}) =>
                st'[j] \in Suspended \cup Ended]_vars

\* a pipeline got its link set in one piece while the shutdown of
\* asyncio.run was waiting to cancel it
C19_Witness ==
    \E j \in urls :
        /\ st[j] = "Extracted"
        /\ running = {j}
        /\ found[j] # {}
        /\ opc = "raised"

\* -------------------------------------------------------------- rand.py
\* The three make_random tasks run on one event loop: `rready` is its FIFO
\* queue.  randint has no await inside, so a draw and the test of the
\* while loop are one step of the task; asyncio.sleep(idx + 1) suspends
\* it until its timer is due.  The draws are any values of randint's range.

\* a while loop that lets the value below the threshold pass
TooLowShifted(i, threshold) == i < threshold - 1

\* line 23: the test of the while loop
TooLow(i, threshold) == i < threshold

\* line 32: gather wraps the three coroutines in tasks, in index order,
\* and main awaits the gather
main_gather ==
    /\ rmain = "start"
    /\ rmain' = "await"
    /\ rst' = [k \in Idx |-> "queued"]
    /\ rready' = [n \in 1 .. NTasks |-> n - 1]
    /\ UNCHANGED <<ri, left, mainRes, ndraws, nsleeps, early, rorder>>
    /\ UNCHANGED areqVars

\* lines 20-28: one step of the task of make_random(idx): the draw of line
\* 22 or 26, then either the sleep of line 25 or the return of line 28
make_random(idx) ==
    /\ rready # <<>>
    /\ Head(rready) = idx
    /\ rst[idx] = "queued"
    /\ ndraws[idx] < MaxDraws
    /\ rready' = Tail(rready)
    /\ ndraws' = [ndraws EXCEPT ![idx] = @ + 1]
    /\ early' = [early EXCEPT
                    ![idx] = @ /\ (ndraws[idx] = 0 \/ ri[idx] < Threshold(idx))]
    /\ \E d \in Lo .. Hi :
          /\ ri' = [ri EXCEPT ![idx] = d]
          /\ IF TooLow(d, Threshold(idx))
             THEN /\ rst' = [rst EXCEPT ![idx] = "sleeping"]
                  /\ left' = [left EXCEPT ![idx] = Delay(idx)]
                  /\ nsleeps' = [nsleeps EXCEPT ![idx] = @ + 1]
                  /\ UNCHANGED rorder
             ELSE /\ rst' = [rst EXCEPT ![idx] = "done"]
                  /\ rorder' = Append(rorder, idx)
                  /\ UNCHANGED <<left, nsleeps>>
    /\ UNCHANGED <<rmain, mainRes>>
    /\ UNCHANGED areqVars

\* line 25: nothing is ready and no timer is due: a second passes
SleepTick ==
    /\ rready = <<>>
    /\ \E k \in Idx : rst[k] = "sleeping"
    /\ \A k \in Idx : rst[k] = "sleeping" => left[k] > 0
    /\ left' = [k \in Idx |-> IF rst[k] = "sleeping" THEN left[k] - 1
                              ELSE left[k]]
    /\ UNCHANGED <<rmain, rst, ri, rready, mainRes, ndraws, nsleeps, early,
                   rorder>>
    /\ UNCHANGED areqVars

\* line 25: the timer of the sleep is due: the task is queued again
SleepWake(idx) ==
    /\ rst[idx] = "sleeping"
    /\ left[idx] = 0
    /\ rst' = [rst EXCEPT ![idx] = "queued"]
    /\ rready' = Append(rready, idx)
    /\ UNCHANGED <<rmain, ri, left, mainRes, ndraws, nsleeps, early, rorder>>
    /\ UNCHANGED areqVars

\* line 32: the result list of a gather whose children all finished: the
\* results in the order of the arguments
GatherResults == [n \in 1 .. NTasks |-> ri[n - 1]]

\* lines 32-33: the last task finished: the gather hands its result list
\* to main, which returns it
main_return ==
    /\ rmain = "await"
    /\ \A k \in Idx : rst[k] = "done"
    /\ rmain' = "returned"
    /\ mainRes' = GatherResults
    /\ UNCHANGED <<rst, ri, left, rready, ndraws, nsleeps, early, rorder>>
    /\ UNCHANGED areqVars

RandNext ==
    \/ main_gather
    \/ \E idx \in Idx : make_random(idx)
    \/ SleepTick
    \/ \E idx \in Idx : SleepWake(idx)
    \/ main_return

\* rand.py alone: the crawler does not run
RandInit == Init /\ urls = {1} /\ sink = <<>>

RandSpec == RandInit /\ [][RandNext]_vars

\* C20: make_random(k, 9 - k) returns the first draw that is not below
\* 9 - k, a value of 9 - k .. 10: every earlier draw was below 9 - k and
\* each was followed by exactly one sleep before the next draw; main
\* returns the three results in index order
C20_FirstDrawAtThreshold ==
    /\ \A k \in 0 .. 2 :
          /\ rst[k] = "done" =>
                /\ 9 - k <= ri[k] /\ ri[k] <= 10
                /\ early[k]
                /\ nsleeps[k] = ndraws[k] - 1
          /\ rst[k] = "sleeping" => (ri[k] < 9 - k /\ nsleeps[k] = ndraws[k])
          /\ rst[k] = "queued" => nsleeps[k] = ndraws[k]
    /\ rmain = "returned" =>
          /\ Len(mainRes) = 3
          /\ \A k \in 0 .. 2 : rst[k] = "done" /\ mainRes[k + 1] = ri[k]

\* main returned after make_random(0) retried and finished after another
\* task
C20_Witness ==
    /\ rmain = "returned"
    /\ rorder[1] # 0
    /\ ndraws[0] = 2
    /\ nsleeps[0] = 1
    /\ mainRes = <<ri[0], ri[1], ri[2]>>

====
